---- MODULE Spec2Model ----
(***************************************************************************)
(* Model of zotbot.py: one invocation of the script is one run.  A run     *)
(* takes a timestamp, loads the artifact (cursor) file, fetches a page of  *)
(* Zotero items, keeps the items added after the last run, posts each of   *)
(* them to Slack, and writes the artifact file back.                       *)
(*                                                                         *)
(* Times are whole seconds (the timestamp is taken with microsecond=0 and  *)
(* isoparse reads it back to the same second), item versions are naturals. *)
(* An article is [version, dateAdded]; the fields format_article reads are *)
(* not modelled, their effect (format_article raising inside the send) is  *)
(* one of the outcomes of a send.  The artifact file keeps the two fields  *)
(* that are read back ("time", "version"); "articles_cnt" and "skipped"    *)
(* are part of run_info only.                                              *)
(***************************************************************************)
EXTENDS Integers, Sequences, FiniteSets

VARIABLES
    now,            \* wall clock (seconds)
    artifact_file,  \* content of the file at args.artifact
    pc,             \* position of the current run
    args,           \* parsed command line of the current run
    timestamp,      \* main: timestamp
    last_run_time,  \* main: last_run_time
    since,          \* main: since
    request,        \* the limit= and since= passed to retrieve_articles
    articles,       \* main: articles
    max_version,    \* main: max_version
    new_articles,   \* main: new_articles, as indices into articles
    done_cnt,       \* number of iterations of the posting loop finished
    skipped,        \* main: skipped
    attempts,       \* calls of send_article_to_slack made by this run
    run_info,       \* value returned by main
    file_at_start,  \* artifact_file as it was when the run started
    exc,            \* the exception that ended the run, "none" if none did
    status,         \* exit status of the process
    events,         \* the steps of the current run, in the order taken
    library,        \* the Zotero collection: key -> item, or NoItem
    notified,       \* keys sent to Slack by an earlier run
    omitted         \* keys that matched the last fetch and were not returned

vars == <<now, artifact_file, pc, args, timestamp, last_run_time, since,
          request, articles, max_version, new_articles, done_cnt, skipped,
          attempts, run_info, file_at_start, exc, status, events, library,
          notified, omitted>>

\* the state of the Zotero side and what is remembered of earlier runs
srcvars == <<library, notified, omitted>>

----------------------------------------------------------------------------
(* Bounds *)

MaxTime == 2
MaxVersion == 2
MaxBatch == 2
MaxSince == 1
MaxKey == 2
MaxLibVersion == 3

----------------------------------------------------------------------------
(* Values *)

\* datetime.datetime.min, earlier than every parsed time
MinTime == -1

\* an article without data.dateAdded; a 'time' isoparse cannot read
Missing == -2

\* a record without the key 'version'
NoVersion == -1

\* no value yet
None == -3

\* the keys of the items the collection can hold
Keys == 1..MaxKey

\* a key the collection holds no item for
NoItem == [version |-> 0, dateAdded |-> Missing]

AbsentFile == [kind |-> "absent", time |-> 0, version |-> 0]

\* a file json.load cannot read
GarbageFile == [kind |-> "garbage", time |-> 0, version |-> 0]

RecordFile(t, v) == [kind |-> "record", time |-> t, version |-> v]

Article == [version : 1..MaxVersion, dateAdded : (0..MaxTime) \cup {Missing}]

RECURSIVE SeqsUpTo(_, _)
SeqsUpTo(S, n) ==
    IF n = 0 THEN {<<>>}
    ELSE LET shorter == SeqsUpTo(S, n - 1)
         IN  shorter \cup {Append(s, x) : s \in {q \in shorter : Len(q) = n - 1}, x \in S}

Args == [since_version : 0..MaxSince, limit : 1..MaxBatch,
         mock : BOOLEAN, test : BOOLEAN, artifact : BOOLEAN]

NoArgs == [since_version |-> 0, limit |-> 1, mock |-> FALSE, test |-> FALSE,
           artifact |-> FALSE]

NoRequest == [limit |-> None, since |-> None]

NoRunInfo == [time |-> None, version |-> None, articles_cnt |-> None,
              skipped |-> None]

----------------------------------------------------------------------------
(* Pure parts of main *)

Max(a, b) == IF a >= b THEN a ELSE b

RECURSIVE MaxOf(_)
MaxOf(s) == IF Len(s) = 1 THEN Head(s) ELSE Max(Head(s), MaxOf(Tail(s)))

RECURSIVE Versions(_)
Versions(arts) ==
    IF arts = <<>> THEN <<>> ELSE <<Head(arts).version>> \o Versions(Tail(arts))

\* the highest version among the items of lib with a key in ks, 0 if none
RECURSIVE MaxVersionIn(_, _)
MaxVersionIn(lib, ks) ==
    IF ks = {} THEN 0
    ELSE LET k == CHOOSE x \in ks : TRUE
         IN  Max(lib[k].version, MaxVersionIn(lib, ks \ {k}))

\* variant: only the first fetched article is looked at
ComputeMaxVersion_FirstOnly(s, arts) ==
    IF arts = <<>> THEN s ELSE Max(s, Head(arts).version)

\* variant: the maximum of the fetched versions alone
ComputeMaxVersion_FetchedOnly(s, arts) ==
    IF arts = <<>> THEN 0 ELSE MaxOf(Versions(arts))

\* max([since] + [a['version'] for a in articles])
ComputeMaxVersion(s, arts) == MaxOf(<<s>> \o Versions(arts))

\* variant: >= in place of >
IsNew_Inclusive(a, lrt) == a.dateAdded >= lrt

\* isoparse(a['data']['dateAdded']) > last_run_time
IsNew(a, lrt) == a.dateAdded > lrt

\* the list comprehension raises KeyError on an article without dateAdded
FilterRaises(arts) == \E i \in 1..Len(arts) : arts[i].dateAdded = Missing

RECURSIVE SelectIdx(_, _, _)
SelectIdx(arts, lrt, i) ==
    IF i > Len(arts) THEN <<>>
    ELSE (IF IsNew(arts[i], lrt) THEN <<i>> ELSE <<>>) \o SelectIdx(arts, lrt, i + 1)

\* variant: the first fetched article is left out
FilterNew_SkipFirst(arts, lrt) == SelectIdx(arts, lrt, 2)

\* [a for a in articles if ...], in the order of articles
FilterNew(arts, lrt) == SelectIdx(arts, lrt, 1)

\* variant: the configured limit whatever since is
PageSize_Configured(lim, s) == lim

\* limit=(limit if since else 1)
PageSize(lim, s) == IF s /= 0 THEN lim ELSE 1

\* for art in reversed(new_articles): the article of iteration k (1-based)
LoopArticle(na, k) == na[Len(na) + 1 - k]

\* what lines 132-138 leave in last_run_time
LoadTime(a, f) ==
    IF a.artifact /\ f.kind = "record" /\ f.time /= Missing
    THEN f.time ELSE MinTime

\* variant: the stored version is taken before the time is parsed
LoadSince_KeepsVersion(a, f) ==
    IF a.artifact /\ f.kind = "record" /\ f.version /= NoVersion
    THEN f.version ELSE a.since_version

\* variant: a --since given on the command line wins over the stored version
LoadSince_OverrideWins(a, f) ==
    IF a.since_version = 0 /\ a.artifact /\ f.kind = "record" /\ f.time /= Missing
       /\ f.version /= NoVersion
    THEN f.version ELSE a.since_version

\* what lines 131-138 leave in since
LoadSince(a, f) ==
    IF a.artifact /\ f.kind = "record" /\ f.time /= Missing /\ f.version /= NoVersion
    THEN f.version ELSE a.since_version

\* variant: the mock flag is not looked at
WritesArtifact_IgnoresMock(a) == ~a.test /\ a.artifact

\* if not args.mock and not args.test and args.artifact
WritesArtifact(a) == ~a.mock /\ ~a.test /\ a.artifact

\* variant: the script always ends normally
ExitStatus_Zero(info) == 0

\* if info['skipped']: sys.exit(2)
ExitStatus(info) == IF info.skipped /= 0 THEN 2 ELSE 0

\* outcomes of one call of send_article_to_slack:
\*   "posted"  requests.post returned status 200
\*   "non200"  requests.post returned another status; the response is returned
\*   "mock"    mock=True (or the --test stand-in): printed, nothing posted
\*   "raised"  format_article or requests.post raised
SendOutcomes(a) ==
    IF a.mock THEN {"mock", "raised"} ELSE {"posted", "non200", "raised"}

----------------------------------------------------------------------------
(* State machine *)

Init ==
    /\ now = 1
    /\ artifact_file = AbsentFile
    /\ pc = "idle"
    /\ args = NoArgs
    /\ timestamp = None
    /\ last_run_time = MinTime
    /\ since = 0
    /\ request = NoRequest
    /\ articles = <<>>
    /\ max_version = None
    /\ new_articles = <<>>
    /\ done_cnt = 0
    /\ skipped = 0
    /\ attempts = <<>>
    /\ run_info = NoRunInfo
    /\ file_at_start = AbsentFile
    /\ exc = "none"
    /\ status = None
    /\ events = <<>>
    /\ library = [k \in Keys |-> NoItem]
    /\ notified = {}
    /\ omitted = {}

\* the process starts: argparse, the --test patch, and line 127 of main
StartRun ==
    /\ pc \in {"idle", "done"}
    /\ \E a \in Args, t \in now..MaxTime :
          /\ a.test => a.mock
          /\ args' = a
          /\ now' = t
          /\ timestamp' = t
    /\ pc' = "load"
    /\ last_run_time' = MinTime
    /\ since' = 0
    /\ request' = NoRequest
    /\ articles' = <<>>
    /\ max_version' = None
    /\ new_articles' = <<>>
    /\ done_cnt' = 0
    /\ skipped' = 0
    /\ attempts' = <<>>
    /\ run_info' = NoRunInfo
    /\ file_at_start' = artifact_file
    /\ exc' = "none"
    /\ status' = None
    /\ UNCHANGED artifact_file
    /\ events' = <<>>
    /\ UNCHANGED srcvars

\* main, step 2
LoadCursor ==
    /\ pc = "load"
    /\ last_run_time' = LoadTime(args, artifact_file)
    /\ since' = LoadSince(args, artifact_file)
    /\ pc' = "fetch"
    /\ UNCHANGED <<now, artifact_file, args, timestamp, request, articles,
                   max_version, new_articles, done_cnt, skipped, attempts,
                   run_info, file_at_start, exc, status>>
    /\ events' = Append(events, "load")
    /\ UNCHANGED srcvars

\* main, step 3: retrieve_articles returns
FetchOk ==
    /\ pc = "fetch"
    /\ request' = [limit |-> PageSize(args.limit, since), since |-> since]
    /\ \E arts \in SeqsUpTo(Article, MaxBatch) :
          /\ ~args.test => Len(arts) <= PageSize(args.limit, since)
          /\ articles' = arts
    /\ pc' = "filter"
    /\ UNCHANGED <<now, artifact_file, args, timestamp, last_run_time, since,
                   max_version, new_articles, done_cnt, skipped, attempts,
                   run_info, file_at_start, exc, status>>
    /\ events' = Append(events, "fetch")
    /\ UNCHANGED srcvars

\* variant: the exception is caught and the run goes on with no article
FetchFail_Swallowed ==
    /\ pc = "fetch"
    /\ ~args.test
    /\ request' = [limit |-> PageSize(args.limit, since), since |-> since]
    /\ exc' = "SourceError"
    /\ articles' = <<>>
    /\ pc' = "filter"
    /\ UNCHANGED <<now, artifact_file, args, timestamp, last_run_time, since,
                   max_version, new_articles, done_cnt, skipped, attempts,
                   run_info, file_at_start, status>>
    /\ events' = Append(events, "fetch")
    /\ UNCHANGED srcvars

\* main, step 3: urlopen or json.loads raises, nothing catches it
FetchFail ==
    /\ pc = "fetch"
    /\ ~args.test
    /\ request' = [limit |-> PageSize(args.limit, since), since |-> since]
    /\ exc' = "SourceError"
    /\ pc' = "done"
    /\ status' = 1
    /\ UNCHANGED <<now, artifact_file, args, timestamp, last_run_time, since,
                   articles, max_version, new_articles, done_cnt, skipped,
                   attempts, run_info, file_at_start>>
    /\ events' = Append(events, "fetch")
    /\ UNCHANGED srcvars

\* main, steps 4 and 5
Classify ==
    /\ pc = "filter"
    /\ ~FilterRaises(articles)
    /\ max_version' = ComputeMaxVersion(since, articles)
    /\ new_articles' = FilterNew(articles, last_run_time)
    /\ pc' = "deliver"
    /\ UNCHANGED <<now, artifact_file, args, timestamp, last_run_time, since,
                   request, articles, done_cnt, skipped, attempts, run_info,
                   file_at_start, exc, status>>
    /\ events' = Append(events, "classify")
    /\ UNCHANGED srcvars

\* main, step 5 raises KeyError, nothing catches it
ClassifyCrash ==
    /\ pc = "filter"
    /\ FilterRaises(articles)
    /\ max_version' = ComputeMaxVersion(since, articles)
    /\ exc' = "KeyError"
    /\ pc' = "done"
    /\ status' = 1
    /\ UNCHANGED <<now, artifact_file, args, timestamp, last_run_time, since,
                   request, articles, new_articles, done_cnt, skipped,
                   attempts, run_info, file_at_start>>
    /\ events' = Append(events, "classify")
    /\ UNCHANGED srcvars

\* variant: the artifact file is rewritten after every send
Deliver_Checkpoints ==
    /\ pc = "deliver"
    /\ done_cnt < Len(new_articles)
    /\ \E o \in SendOutcomes(args) :
          /\ attempts' = Append(attempts,
                 [idx |-> LoopArticle(new_articles, done_cnt + 1), outcome |-> o])
          /\ skipped' = IF o = "raised" THEN skipped + 1 ELSE skipped
    /\ done_cnt' = done_cnt + 1
    /\ artifact_file' = IF WritesArtifact(args) THEN RecordFile(timestamp, max_version)
                        ELSE artifact_file
    /\ events' = IF WritesArtifact(args) THEN events \o <<"send", "write">>
                 ELSE Append(events, "send")
    /\ UNCHANGED <<now, pc, args, timestamp, last_run_time,
                   since, request, articles, max_version, new_articles,
                   run_info, file_at_start, exc, status>>
    /\ UNCHANGED srcvars

\* variant: a send that raises ends the loop
Deliver_StopsOnFailure ==
    /\ pc = "deliver"
    /\ done_cnt < Len(new_articles)
    /\ \E o \in SendOutcomes(args) :
          /\ attempts' = Append(attempts,
                 [idx |-> LoopArticle(new_articles, done_cnt + 1), outcome |-> o])
          /\ skipped' = IF o = "raised" THEN skipped + 1 ELSE skipped
          /\ done_cnt' = IF o = "raised" THEN Len(new_articles) ELSE done_cnt + 1
    /\ UNCHANGED <<now, artifact_file, pc, args, timestamp, last_run_time,
                   since, request, articles, max_version, new_articles,
                   run_info, file_at_start, exc, status>>
    /\ events' = Append(events, "send")
    /\ UNCHANGED srcvars

\* main, step 6: one iteration of the loop
Deliver ==
    /\ pc = "deliver"
    /\ done_cnt < Len(new_articles)
    /\ \E o \in SendOutcomes(args) :
          /\ attempts' = Append(attempts,
                 [idx |-> LoopArticle(new_articles, done_cnt + 1), outcome |-> o])
          /\ skipped' = IF o = "raised" THEN skipped + 1 ELSE skipped
    /\ done_cnt' = done_cnt + 1
    /\ UNCHANGED <<now, artifact_file, pc, args, timestamp, last_run_time,
                   since, request, articles, max_version, new_articles,
                   run_info, file_at_start, exc, status>>
    /\ events' = Append(events, "send")
    /\ UNCHANGED srcvars

\* main, step 7: the loop is over, main returns run_info
Return ==
    /\ pc = "deliver"
    /\ done_cnt = Len(new_articles)
    /\ run_info' = [time |-> timestamp, version |-> max_version,
                    articles_cnt |-> Len(new_articles), skipped |-> skipped]
    /\ pc' = "write"
    /\ UNCHANGED <<now, artifact_file, args, timestamp, last_run_time, since,
                   request, articles, max_version, new_articles, done_cnt,
                   skipped, attempts, file_at_start, exc, status>>
    /\ UNCHANGED events
    /\ UNCHANGED srcvars

\* __main__: json.dump(info, f)
WriteArtifact ==
    /\ pc = "write"
    /\ WritesArtifact(args)
    /\ artifact_file' = RecordFile(run_info.time, run_info.version)
    /\ pc' = "exit"
    /\ UNCHANGED <<now, args, timestamp, last_run_time, since, request,
                   articles, max_version, new_articles, done_cnt, skipped,
                   attempts, run_info, file_at_start, exc, status>>
    /\ events' = Append(events, "write")
    /\ UNCHANGED srcvars

\* __main__: the condition of the write is false
SkipWrite ==
    /\ pc = "write"
    /\ ~WritesArtifact(args)
    /\ pc' = "exit"
    /\ UNCHANGED <<now, artifact_file, args, timestamp, last_run_time, since,
                   request, articles, max_version, new_articles, done_cnt,
                   skipped, attempts, run_info, file_at_start, exc, status>>
    /\ UNCHANGED events
    /\ UNCHANGED srcvars

\* __main__: sys.exit(2) or the end of the script
Exit ==
    /\ pc = "exit"
    /\ status' = ExitStatus(run_info)
    /\ pc' = "done"
    /\ UNCHANGED <<now, artifact_file, args, timestamp, last_run_time, since,
                   request, articles, max_version, new_articles, done_cnt,
                   skipped, attempts, run_info, file_at_start, exc>>
    /\ events' = Append(events, "exit")
    /\ UNCHANGED srcvars

Next ==
    \/ StartRun
    \/ LoadCursor
    \/ FetchOk
    \/ FetchFail
    \/ Classify
    \/ ClassifyCrash
    \/ Deliver
    \/ Return
    \/ WriteArtifact
    \/ SkipWrite
    \/ Exit

Spec == Init /\ [][Next]_vars

\* variant: the exception of the write is caught and the script goes on
WriteOpenFails_Swallowed ==
    /\ pc = "write"
    /\ WritesArtifact(args)
    /\ exc' = "WriteError"
    /\ pc' = "exit"
    /\ events' = Append(events, "write")
    /\ UNCHANGED <<now, artifact_file, args, timestamp, last_run_time, since,
                   request, articles, max_version, new_articles, done_cnt,
                   skipped, attempts, run_info, file_at_start, status>>
    /\ UNCHANGED srcvars

\* __main__: open(args.artifact, 'w') raises, nothing catches it; the file is
\* as it was
WriteOpenFails ==
    /\ pc = "write"
    /\ WritesArtifact(args)
    /\ exc' = "WriteError"
    /\ pc' = "done"
    /\ status' = 1
    /\ events' = Append(events, "write")
    /\ UNCHANGED <<now, artifact_file, args, timestamp, last_run_time, since,
                   request, articles, max_version, new_articles, done_cnt,
                   skipped, attempts, run_info, file_at_start>>
    /\ UNCHANGED srcvars

\* __main__: open(args.artifact, 'w') has emptied the file and the run ends
\* inside json.dump (write error, or the process is stopped): the file holds
\* nothing or the beginning of the record, which json.load cannot read
WriteTorn ==
    /\ pc = "write"
    /\ WritesArtifact(args)
    /\ artifact_file' = GarbageFile
    /\ exc' = "WriteError"
    /\ pc' = "done"
    /\ status' = 1
    /\ events' = Append(events, "write")
    /\ UNCHANGED <<now, args, timestamp, last_run_time, since, request,
                   articles, max_version, new_articles, done_cnt, skipped,
                   attempts, run_info, file_at_start>>
    /\ UNCHANGED srcvars

\* the runs, with writes that can fail
NextFault ==
    \/ Next
    \/ WriteOpenFails
    \/ WriteTorn

SpecFault == Init /\ [][NextFault]_vars

\* what a run can find at args.artifact: no file, a file that is not JSON,
\* or a record whose 'time' or 'version' may be missing or unreadable
CursorFiles ==
    {AbsentFile, GarbageFile}
        \cup {RecordFile(t, v) : t \in (0..MaxTime) \cup {Missing},
                                 v \in (0..MaxVersion) \cup {NoVersion}}

\* the first run finds any of these files
InitAnyFile ==
    /\ now = 1
    /\ artifact_file \in CursorFiles
    /\ pc = "idle"
    /\ args = NoArgs
    /\ timestamp = None
    /\ last_run_time = MinTime
    /\ since = 0
    /\ request = NoRequest
    /\ articles = <<>>
    /\ max_version = None
    /\ new_articles = <<>>
    /\ done_cnt = 0
    /\ skipped = 0
    /\ attempts = <<>>
    /\ run_info = NoRunInfo
    /\ file_at_start = AbsentFile
    /\ exc = "none"
    /\ status = None
    /\ events = <<>>
    /\ library = [k \in Keys |-> NoItem]
    /\ notified = {}
    /\ omitted = {}

SpecAnyFile == InitAnyFile /\ [][Next]_vars

\* the version of the library: the highest version given to an item so far
LibVersion == MaxVersionIn(library, Keys)

\* items/top?...&since=V: the items changed after version V; without since=
\* (since is 0) every item
Matching(lib, s) ==
    {k \in Keys : lib[k] /= NoItem /\ (s = 0 \/ lib[k].version > s)}

\* the pages of n items the feed can answer with: the order and, when more
\* than n items match, the choice of the items are the feed's
Pages(lib, s, n) ==
    LET m == Matching(lib, s)
        len == IF Cardinality(m) < n THEN Cardinality(m) ELSE n
    IN  {p \in SeqsUpTo(m, len) :
            /\ Len(p) = len
            /\ \A i, j \in 1..Len(p) : i /= j => p[i] /= p[j]}

\* the JSON of the item with key k
ArticleOf(lib, k) ==
    [key |-> k, version |-> lib[k].version, dateAdded |-> lib[k].dateAdded]

\* the clock goes on while the script runs and between runs
Tick ==
    /\ now < MaxTime
    /\ now' = now + 1
    /\ UNCHANGED <<artifact_file, pc, args, timestamp, last_run_time, since,
                   request, articles, max_version, new_articles, done_cnt,
                   skipped, attempts, run_info, file_at_start, exc, status,
                   events, library, notified, omitted>>

\* a user adds an item to the collection: dateAdded is the time of the
\* addition, the version is the next version of the library
AddItem(k) ==
    /\ library[k] = NoItem
    /\ LibVersion < MaxLibVersion
    /\ library' = [library EXCEPT ![k] = [version |-> LibVersion + 1, dateAdded |-> now]]
    /\ UNCHANGED <<now, artifact_file, pc, args, timestamp, last_run_time,
                   since, request, articles, max_version, new_articles,
                   done_cnt, skipped, attempts, run_info, file_at_start, exc,
                   status, events, notified, omitted>>

\* a user edits an item: it gets the next version of the library, dateAdded
\* stays
EditItem(k) ==
    /\ library[k] /= NoItem
    /\ LibVersion < MaxLibVersion
    /\ library' = [library EXCEPT ![k].version = LibVersion + 1]
    /\ UNCHANGED <<now, artifact_file, pc, args, timestamp, last_run_time,
                   since, request, articles, max_version, new_articles,
                   done_cnt, skipped, attempts, run_info, file_at_start, exc,
                   status, events, notified, omitted>>

\* a scheduled run starts: not simulated, with --artifact; the keys the run
\* before sent are remembered
StartScheduledRun ==
    /\ pc \in {"idle", "done"}
    /\ \E a \in Args :
          /\ WritesArtifact(a)
          /\ args' = a
    /\ timestamp' = now
    /\ pc' = "load"
    /\ last_run_time' = MinTime
    /\ since' = 0
    /\ request' = NoRequest
    /\ articles' = <<>>
    /\ max_version' = None
    /\ new_articles' = <<>>
    /\ done_cnt' = 0
    /\ skipped' = 0
    /\ attempts' = <<>>
    /\ run_info' = NoRunInfo
    /\ file_at_start' = artifact_file
    /\ exc' = "none"
    /\ status' = None
    /\ events' = <<>>
    /\ notified' = notified \cup {articles[attempts[k].idx].key : k \in 1..Len(attempts)}
    /\ omitted' = {}
    /\ UNCHANGED <<now, artifact_file, library>>

\* main, step 3: retrieve_articles returns one page of the collection
FetchSource ==
    /\ pc = "fetch"
    /\ request' = [limit |-> PageSize(args.limit, since), since |-> since]
    /\ \E p \in Pages(library, since, PageSize(args.limit, since)) :
          /\ articles' = [i \in 1..Len(p) |-> ArticleOf(library, p[i])]
          /\ omitted' = Matching(library, since) \ {p[i] : i \in 1..Len(p)}
    /\ pc' = "filter"
    /\ events' = Append(events, "fetch")
    /\ UNCHANGED <<now, artifact_file, args, timestamp, last_run_time, since,
                   max_version, new_articles, done_cnt, skipped, attempts,
                   run_info, file_at_start, exc, status, library, notified>>

\* scheduled runs over a collection that users add to and edit
NextSource ==
    \/ StartScheduledRun
    \/ LoadCursor
    \/ FetchSource
    \/ Classify
    \/ Deliver
    \/ Return
    \/ WriteArtifact
    \/ Exit
    \/ Tick
    \/ \E k \in Keys : AddItem(k)
    \/ \E k \in Keys : EditItem(k)

SpecSource == Init /\ [][NextSource]_vars

TypeOK ==
    /\ now \in 1..MaxTime
    /\ pc \in {"idle", "load", "fetch", "filter", "deliver", "write", "exit", "done"}
    /\ artifact_file.kind \in {"absent", "garbage", "record"}
    /\ skipped \in 0..MaxBatch
    /\ status \in {None, 0, 1, 2}
    /\ exc \in {"none", "SourceError", "KeyError", "WriteError"}

----------------------------------------------------------------------------
(* Properties *)

\* the artifact file holds a record this run could read a cursor from
UsableCursor(f) == f.kind = "record" /\ f.time /= Missing

\* the start time of the previous run, as the file the run started with has it
PreviousRunStart ==
    IF args.artifact /\ UsableCursor(file_at_start) THEN file_at_start.time
    ELSE MinTime

\* main returned and nothing raised since
Completed == pc \in {"write", "exit", "done"} /\ exc = "none"

\* the number of calls of send_article_to_slack made for articles[i]
AttemptsFor(i) == Cardinality({k \in 1..Len(attempts) : attempts[k].idx = i})

\* the calls of send_article_to_slack that did not deliver
FailedAttempts ==
    {k \in 1..Len(attempts) : attempts[k].outcome \notin {"posted", "mock"}}

EditSuppression ==
    \A k \in 1..Len(attempts) :
        (args.artifact /\ UsableCursor(file_at_start))
            => ~(articles[attempts[k].idx].dateAdded <= file_at_start.time)

\* C2 witness: a run posted something while the batch also held an article
\* added at or before the cursor time with a version above the cursor's.
EditSuppressionWitness ==
    /\ pc = "done"
    /\ exc = "none"
    /\ args.artifact /\ UsableCursor(file_at_start)
    /\ attempts /= <<>>
    /\ \E i \in 1..Len(articles) :
          /\ articles[i].dateAdded <= file_at_start.time
          /\ articles[i].version > file_at_start.version

\* C3: in a run that completes, every fetched article added strictly after
\* the previous run's start has exactly one delivery attempt.
NewItemDelivery ==
    Completed =>
        \A i \in 1..Len(articles) :
            articles[i].dateAdded > PreviousRunStart => AttemptsFor(i) = 1

\* C3 witness: a completed run with a full batch of new articles next to a
\* usable cursor.
NewItemDeliveryWitness ==
    /\ pc = "done"
    /\ exc = "none"
    /\ args.artifact /\ UsableCursor(file_at_start)
    /\ Len(articles) = MaxBatch
    /\ \A i \in 1..Len(articles) : articles[i].dateAdded > PreviousRunStart
    /\ Len(attempts) = MaxBatch

\* C4: no step of a run in mock mode or in --test mode changes the artifact
\* file.
SimulationIsolation ==
    [][(IF pc \in {"idle", "done"} THEN args'.mock \/ args'.test
                                   ELSE args.mock \/ args.test)
          => artifact_file' = artifact_file]_vars

\* C4 witness: a simulated run over an existing cursor file ended with a
\* skipped delivery and a higher version seen, the file as it was.
SimulationIsolationWitness ==
    /\ pc = "done"
    /\ exc = "none"
    /\ args.mock
    /\ args.artifact
    /\ file_at_start.kind = "record"
    /\ skipped > 0
    /\ max_version > file_at_start.version
    /\ artifact_file = file_at_start

\* C5: when the fetch fails the run fails, nothing is delivered and the
\* artifact file is what it was when the run started.
SourceFailure ==
    exc = "SourceError" =>
        /\ pc = "done"
        /\ status /= 0
        /\ status /= None
        /\ attempts = <<>>
        /\ artifact_file = file_at_start

\* C5 witness: a failed fetch of a run that would have written the file.
SourceFailureWitness ==
    /\ exc = "SourceError"
    /\ pc = "done"
    /\ WritesArtifact(args)
    /\ file_at_start.kind = "record"
    /\ timestamp > file_at_start.time

\* the fetched articles without dateAdded
Malformed == {i \in 1..Len(articles) : articles[i].dateAdded = Missing}

\* C6: a run whose batch holds one article without dateAdded ends completed:
\* skipped counts that article and every delivery attempt that failed (2 when
\* one attempt failed), every other new article has its delivery attempt,
\* and a run that writes the artifact file has stored its cursor.
PartialFailureResilience ==
    (pc = "done" /\ Cardinality(Malformed) = 1)
        => /\ exc = "none"
           /\ status \in {0, 2}
           /\ skipped = 1 + Cardinality(FailedAttempts)
           /\ \A i \in 1..Len(articles) :
                 (i \notin Malformed /\ articles[i].dateAdded > PreviousRunStart)
                     => AttemptsFor(i) = 1
           /\ WritesArtifact(args)
                 => artifact_file = RecordFile(timestamp, max_version)

\* C7: the delivery attempts of a run whose new articles have pairwise
\* distinct dateAdded are made in strictly ascending dateAdded order.
DeliveryOrder ==
    (\A i, j \in 1..Len(new_articles) :
        i /= j => articles[new_articles[i]].dateAdded /= articles[new_articles[j]].dateAdded)
    => \A k, l \in 1..Len(attempts) :
          k < l => articles[attempts[k].idx].dateAdded < articles[attempts[l].idx].dateAdded

\* the run has no cursor file to read
NoPriorCursor == ~args.artifact \/ file_at_start.kind = "absent"

\* C8: the page size passed to retrieve_articles is 1 on a run without prior
\* cursor and without --since, and in general 1 when the starting version is
\* 0 and the configured limit when it is not.
ColdStartLimiting ==
    request /= NoRequest =>
        /\ (NoPriorCursor /\ args.since_version = 0)
              => (request.since = 0 /\ request.limit = 1)
        /\ request.since = 0 => request.limit = 1
        /\ request.since /= 0 => request.limit = args.limit

\* C8 witness: a cold start with a configured limit above 1.
ColdStartLimitingWitness ==
    /\ request /= NoRequest
    /\ NoPriorCursor
    /\ args.since_version = 0
    /\ args.limit = MaxBatch
    /\ args.limit > 1
    /\ ~args.test
    /\ pc = "filter"

SkippedCountsFailures ==
    Completed => skipped = Cardinality(FailedAttempts)

\* the version the run starts from when nothing overrides it: the stored
\* one, or the --since value when there is no cursor to read
LastVersion ==
    IF args.artifact /\ UsableCursor(file_at_start) /\ file_at_start.version /= NoVersion
    THEN file_at_start.version ELSE args.since_version

\* the largest of v and the versions of the articles at the indices in idxs
RECURSIVE MaxVersionOver(_, _)
MaxVersionOver(v, idxs) ==
    IF idxs = {} THEN v
    ELSE LET i == CHOOSE j \in idxs : TRUE
         IN  MaxVersionOver(IF articles[i].version > v THEN articles[i].version ELSE v,
                            idxs \ {i})

\* C12: after a completed run that writes the artifact file, the file holds
\* version = max(lastVersion, versions of all fetched articles, edited-only
\* ones included) and time = the timestamp taken at the start of the run.
NextCursorValue ==
    (pc \in {"exit", "done"} /\ exc = "none" /\ WritesArtifact(args)) =>
        /\ artifact_file.kind = "record"
        /\ artifact_file.version = MaxVersionOver(LastVersion, 1..Len(articles))
        /\ artifact_file.version >= LastVersion
        /\ artifact_file.time = timestamp

\* C12 witness: next to a delivered new article the batch held an edited-only
\* article whose version, above the stored one, became the stored version.
NextCursorValueWitness ==
    /\ pc = "done"
    /\ exc = "none"
    /\ WritesArtifact(args)
    /\ UsableCursor(file_at_start)
    /\ Len(attempts) = 1
    /\ articles[attempts[1].idx].version < artifact_file.version
    /\ \E i \in 1..Len(articles) :
          /\ articles[i].dateAdded <= file_at_start.time
          /\ articles[i].version > file_at_start.version
          /\ articles[i].version = artifact_file.version

\* C13: a failed delivery attempt stops nothing: the run ends completed, every
\* new article has had its attempt, and a run that writes the artifact file
\* has stored its newest version and its start time.
DeliveryFailureNonBlocking ==
    /\ FailedAttempts /= {} => exc = "none"
    /\ (pc \in {"exit", "done"} /\ FailedAttempts /= {}) =>
          /\ Len(attempts) = Len(new_articles)
          /\ \A i \in 1..Len(new_articles) : AttemptsFor(new_articles[i]) = 1
          /\ WritesArtifact(args)
                => artifact_file = RecordFile(timestamp, max_version)
    /\ (pc = "done" /\ FailedAttempts /= {}) => status \in {0, 2}

\* C13 witness: the first attempt of a writing run raised, the second one was
\* made, and the file holds the cursor of the run.
DeliveryFailureNonBlockingWitness ==
    /\ pc = "done"
    /\ WritesArtifact(args)
    /\ Len(attempts) = 2
    /\ attempts[1].outcome = "raised"
    /\ artifact_file = RecordFile(timestamp, max_version)
    /\ file_at_start /= artifact_file

\* C14 as stated: the fetch starts from the --since value when one is given,
\* from the stored version only when none is given.
StartingVersionOverride ==
    request /= NoRequest =>
        request.since = (IF args.since_version /= 0 THEN args.since_version
                         ELSE LastVersion)

\* C14 amended: the fetch starts from the stored version whenever the run
\* reads a usable cursor record, and from the --since value (0 when not
\* given) only when it reads none.
StartingVersion ==
    request /= NoRequest =>
        /\ (args.artifact /\ UsableCursor(file_at_start)
              /\ file_at_start.version /= NoVersion)
              => request.since = file_at_start.version
        /\ ~(args.artifact /\ UsableCursor(file_at_start)
              /\ file_at_start.version /= NoVersion)
              => request.since = args.since_version

\* C14 witness: a --since value given next to a stored version that differs.
StartingVersionWitness ==
    /\ request /= NoRequest
    /\ args.artifact
    /\ UsableCursor(file_at_start)
    /\ args.since_version /= 0
    /\ file_at_start.version /= args.since_version
    /\ request.since = file_at_start.version

\* the place of a step in the order of a run
Rank(e) ==
    CASE e = "load" -> 1
      [] e = "fetch" -> 2
      [] e = "classify" -> 3
      [] e = "send" -> 4
      [] e = "write" -> 5
      [] e = "exit" -> 6

\* the number of steps e the run has taken
CountOf(e) == Cardinality({i \in 1..Len(events) : events[i] = e})

\* n times the step "send"
Sends(n) == [i \in 1..n |-> "send"]

\* C16: the steps of a run come in the order load, fetch, classify, the
\* sends, write, exit; every step but the send is taken at most once, no send
\* comes before the fetch, the write comes after the last send, and a run
\* that completes has taken each of them.
RunOrdering ==
    /\ \A i, j \in 1..Len(events) :
          i < j => /\ Rank(events[i]) <= Rank(events[j])
                   /\ events[i] = events[j] => events[i] = "send"
    /\ CountOf("fetch") <= 1
    /\ CountOf("write") <= 1
    /\ CountOf("send") = Len(attempts)
    /\ CountOf("send") > 0 => (CountOf("fetch") = 1 /\ pc /= "fetch")
    /\ CountOf("write") = 1 => CountOf("send") = Len(new_articles)
    /\ (pc = "done" /\ exc = "none") =>
          events = <<"load", "fetch", "classify">> \o Sends(Len(new_articles))
                   \o (IF WritesArtifact(args) THEN <<"write">> ELSE <<>>)
                   \o <<"exit">>

\* C16 witness: a completed writing run with two sends.
RunOrderingWitness ==
    /\ pc = "done"
    /\ exc = "none"
    /\ events = <<"load", "fetch", "classify", "send", "send", "write", "exit">>

\* C15: a run whose cursor file is missing, unreadable or without a usable
\* time gets past the load, classifies from the beginning of time (every
\* fetched article is new) and starts from --since (0 when not given), the
\* version of such a record never being used; a record with a usable time
\* always sets last_run_time.
AbsentOrCorruptCursor ==
    pc \notin {"idle", "load"} =>
        /\ pc = "fetch" => (exc = "none" /\ status = None)
        /\ ~(args.artifact /\ UsableCursor(file_at_start)) =>
              /\ last_run_time = MinTime
              /\ since = args.since_version
              /\ request /= NoRequest => request.since = args.since_version
              /\ (pc \in {"deliver", "write", "exit"} \/ (pc = "done" /\ exc = "none"))
                    => Len(new_articles) = Len(articles)
        /\ (args.artifact /\ UsableCursor(file_at_start)) =>
              /\ last_run_time = file_at_start.time
              /\ last_run_time /= MinTime

\* C15 witness: a run over a record with a version and an unreadable time
\* has fetched with the --since value and found its articles new.
AbsentOrCorruptCursorWitness ==
    /\ pc = "deliver"
    /\ args.artifact
    /\ file_at_start = RecordFile(Missing, MaxVersion)
    /\ args.since_version < MaxVersion
    /\ request.since = args.since_version
    /\ Len(articles) >= 1
    /\ Len(new_articles) = Len(articles)

\* C11: at every point of every run, a failing write included, the artifact
\* file holds the whole record the run started with or the whole record of
\* the run, never something a later run cannot read.
CursorNeverPartial ==
    /\ artifact_file.kind /= "garbage"
    /\ \/ artifact_file = file_at_start
       \/ artifact_file = RecordFile(timestamp, max_version)

\* C17: a run whose write of the artifact file fails ends with a status that
\* is neither 0 nor the status of skipped deliveries, also when every send
\* succeeded.
PersistenceFailure ==
    exc = "WriteError" =>
        /\ pc = "done"
        /\ status /= None
        /\ status /= 0
        /\ status /= ExitStatus([skipped |-> 1])

\* C17 witness: the write failed after a send that was posted, none skipped.
PersistenceFailureWitness ==
    /\ exc = "WriteError"
    /\ pc = "done"
    /\ skipped = 0
    /\ Len(attempts) >= 1
    /\ \A k \in 1..Len(attempts) : attempts[k].outcome = "posted"

\* C18: over scheduled runs whose writes all succeed, no key has delivery
\* attempts in two different runs.
NoRenotification ==
    \A k \in 1..Len(attempts) : articles[attempts[k].idx].key \notin notified

\* C19: after a completed scheduled run that fetched from a non-zero version,
\* every item that matched the fetch and was not on the page has a version
\* above the version the run stored.
ValidResumptionCursor ==
    (pc \in {"exit", "done"} /\ exc = "none" /\ request.since /= 0) =>
        \A k \in omitted : library[k].version > artifact_file.version

====
